---- MODULE Spec2Model ----
(***************************************************************************)
(* Model of the prefecture population viewer.                              *)
(*                                                                         *)
(*   usePopulationData (src/src/hooks/usePopulationData.ts) owns three     *)
(*   React state maps keyed by prefCode: selectedPrefs, populationCache    *)
(*   and isFetching.  handlePrefectureToggle mutates them through          *)
(*   functional updaters and, on a checked toggle, awaits fetchPopulation. *)
(*   Home (src/unnamed/part_000) loads the catalog and wires the hook to   *)
(*   PrefectureList.                                                       *)
(*                                                                         *)
(* selectedPrefs, populationCache and isFetching hold the hook state with  *)
(* every queued updater applied (all setters use functional updaters, so   *)
(* the queue reduces in call order).  handlePrefectureToggle does not read *)
(* that state: it reads the populationCache and isFetching values captured *)
(* by the useCallback instance of the last render (deps, line 116).  These *)
(* captured values are closurePopulationCache and closureIsFetching.  The  *)
(* updates a toggle makes inside the DOM change event are rendered before  *)
(* the next event is dispatched; the updates made after the await are      *)
(* rendered by a later scheduler task (Render).                            *)
(***************************************************************************)
EXTENDS Integers, Sequences, FiniteSets, Bags, TLC

\* ---------------------------------------------------------------- bounds
NumPrefs == 2
MaxToggles == 4

\* -------------------------------------------------------------- catalog
PrefNames == <<"Pref1", "Pref2", "Pref3", "Pref4", "Pref5", "Pref6",
               "Pref7", "Pref8", "Pref9", "Pref10", "Pref11", "Pref12">>

\* Prefecture records as the catalog endpoint lists them.  The listing
\* order is the endpoint's, here descending by code, so that catalog order
\* and numeric order differ.
Prefecture(i) == [prefCode |-> NumPrefs + 1 - i, prefName |-> PrefNames[NumPrefs + 1 - i]]

Catalog == [i \in 1..NumPrefs |-> Prefecture(i)]

PrefCodes == 1..NumPrefs

\* data arrays a fetchPopulation result can carry
PopulationSeries ==
    { <<>>,
      <<[year |-> 1995, value |-> 100]>>,
      <<[year |-> 1995, value |-> 100], [year |-> 2000, value |-> 120]>> }

\* fetchPopulation returns { prefCode, prefName, data } built from its own
\* arguments
fetchPopulationResult(prefCode, prefName, data) ==
    [prefCode |-> prefCode, prefName |-> prefName, data |-> data]

\* ------------------------------------------------- JS object helpers
\* prev[key] is truthy
Truthy(obj, key) == key \in DOMAIN obj /\ obj[key] = TRUE

\* { ...prev, [key]: v }
Spread(prev, key, v) ==
    [k \in DOMAIN prev \cup {key} |-> IF k = key THEN v ELSE prev[k]]

\* const o = { ...prev }; delete o[key]; return o
Deleted(prev, key) == [k \in DOMAIN prev \ {key} |-> prev[k]]

EmptyObject == [k \in {} |-> TRUE]

\* ------------------------------------------------------ state updaters
\* setSelectedPrefs(prev => ({ ...prev, [prefCode]: isChecked }))
SelectUpdater(prev, prefCode, isChecked) == Spread(prev, prefCode, isChecked)

\* the eviction forgotten: the cache is returned as it was
EvictUpdater_Keep(prev, prefCode) == prev

\* setPopulationCache(prev => { delete newCache[prefCode] })
EvictUpdater(prev, prefCode) == Deleted(prev, prefCode)

\* setIsFetching(prev => ({ ...prev, [prefCode]: true }))
\* the flag not raised before the await
FetchStartUpdater_Skip(prev, prefCode) == prev

FetchStartUpdater(prev, prefCode) == Spread(prev, prefCode, TRUE)

\* the finally block forgotten: the flag is never cleared
FetchEndUpdater_Keep(prev, prefCode) == prev

\* setIsFetching(prev => ({ ...prev, [prefCode]: false }))
FetchEndUpdater(prev, prefCode) == Spread(prev, prefCode, FALSE)

\* the spread of prev forgotten: the new entry replaces the whole cache
CacheAddUpdater_NoSpread(prev, prefCode, newPopulationData) ==
    [k \in {prefCode} |-> newPopulationData]

\* setPopulationCache(prev => ({ ...prev, [prefCode]: newPopulationData }))
CacheAddUpdater(prev, prefCode, newPopulationData) ==
    Spread(prev, prefCode, newPopulationData)

\* the rollback written without the key: every selection is cleared
RollbackUpdater_All(prev, prefCode) ==
    [k \in DOMAIN prev \cup {prefCode} |-> FALSE]

\* the rollback forgotten: the optimistic selection stays
RollbackUpdater_Keep(prev, prefCode) == prev

\* setSelectedPrefs(prev => ({ ...prev, [prefCode]: false }))
RollbackUpdater(prev, prefCode) == Spread(prev, prefCode, FALSE)

\* the cache check dropped
CacheHit_Never(cache, prefCode) == FALSE

\* if (populationCache[prefCode]) return;
CacheHit(cache, prefCode) == prefCode \in DOMAIN cache

\* the in-flight check dropped
AlreadyFetching_Never(fetching, prefCode) == FALSE

\* if (isFetching[prefCode]) return;
AlreadyFetching(fetching, prefCode) == Truthy(fetching, prefCode)

\* newPopulationData && newPopulationData.data && newPopulationData.data.length > 0
\* the length test dropped: any resolved result is written to the cache
HasValidData_Always(newPopulationData) == TRUE

HasValidData(newPopulationData) == Len(newPopulationData.data) > 0

VARIABLES
    allPrefectures,          \* Home: catalog state
    loading,                 \* Home: loading flag
    error,                   \* Home: error message or "null"
    selectedPrefs,           \* hook: prefCode -> boolean
    populationCache,         \* hook: prefCode -> PopulationData
    isFetching,              \* hook: prefCode -> boolean
    closurePopulationCache,  \* populationCache captured by the callback
    closureIsFetching,       \* isFetching captured by the callback
    renderPending,           \* updates made after an await wait for a render
    inflight,                \* bag of fetchPopulation calls not yet settled
    fetchCount,              \* number of fetchPopulation calls made so far
    nToggles,                \* number of handlePrefectureToggle calls so far
    outcomes,                \* prefCode -> how its latest settled fetch ended
    last,                    \* the transition that produced this state
    input,                   \* arguments handed to the function under test
    yearlyPopulationMap,     \* the Map the latest aggregation call filled
    outputs                  \* what each call on the input returned

hookVars == <<allPrefectures, loading, error, selectedPrefs, populationCache,
              isFetching, closurePopulationCache, closureIsFetching,
              renderPending, inflight, fetchCount, nToggles, outcomes, last>>

\* state of the calls of the pure functions (aggregation, color)
pureVars == <<input, yearlyPopulationMap, outputs>>

vars == <<hookVars, pureVars>>

homeVars == <<allPrefectures, loading, error>>

Call(prefCode, prefName) == [prefCode |-> prefCode, prefName |-> prefName]

Outstanding(prefCode) ==
    LET calls == {c \in BagToSet(inflight) : c.prefCode = prefCode}
        RECURSIVE Sum(_)
        Sum(S) == IF S = {} THEN 0
                  ELSE LET c == CHOOSE x \in S : TRUE
                       IN CopiesIn(c, inflight) + Sum(S \ {c})
    IN Sum(calls)

HookInit ==
    /\ allPrefectures = <<>>
    /\ loading = TRUE
    /\ error = "null"
    /\ selectedPrefs = EmptyObject
    /\ populationCache = EmptyObject
    /\ isFetching = EmptyObject
    /\ closurePopulationCache = EmptyObject
    /\ closureIsFetching = EmptyObject
    /\ renderPending = FALSE
    /\ inflight = EmptyBag
    /\ fetchCount = 0
    /\ nToggles = 0
    /\ outcomes = EmptyObject
    /\ last = [op |-> "init"]

\* no pure-function call is under way
PureIdle ==
    /\ input = [kind |-> "none"]
    /\ yearlyPopulationMap = <<>>
    /\ outputs = <<>>

Init ==
    /\ HookInit
    /\ PureIdle

\* ------------------------------------------------------------- Home
\* what the proxy can answer to the catalog request: an ok body with a
\* result array (the catalog, or nothing listed), an ok body without
\* result, an error status, or no answer at all (fetch rejects)
CatalogResponses ==
    { [settled |-> TRUE, ok |-> TRUE, json |-> [result |-> Catalog]],
      [settled |-> TRUE, ok |-> TRUE, json |-> [result |-> <<>>]],
      [settled |-> TRUE, ok |-> TRUE, json |-> [message |-> "no result"]],
      [settled |-> TRUE, ok |-> FALSE, json |-> [error |-> "proxy error"]],
      [settled |-> FALSE, ok |-> FALSE, json |-> [error |-> "network"]] }

\* fetchPrefectures: the result array of an ok answer, otherwise a throw
\* (every throw is rethrown by the catch)
fetchPrefectures(response) ==
    IF response.settled /\ response.ok /\ "result" \in DOMAIN response.json
    THEN [threw |-> FALSE, prefs |-> response.json.result]
    ELSE [threw |-> TRUE, prefs |-> <<>>]

\* loadPrefectures: fetchPrefectures resolved with prefs
LoadPrefecturesResolved ==
    /\ loading
    /\ \E response \in CatalogResponses :
          /\ ~fetchPrefectures(response).threw
          /\ allPrefectures' = fetchPrefectures(response).prefs
          /\ last' = [op |-> "loaded",
                      count |-> Len(fetchPrefectures(response).prefs)]
    /\ loading' = FALSE
    /\ UNCHANGED <<error, selectedPrefs, populationCache, isFetching,
                   closurePopulationCache, closureIsFetching, renderPending,
                   inflight, fetchCount, nToggles, outcomes, pureVars>>

\* the finally block forgotten: loading is never cleared on failure
LoadPrefecturesRejected_NoFinally ==
    /\ loading
    /\ \E response \in CatalogResponses : fetchPrefectures(response).threw
    /\ error' = "load error"
    /\ last' = [op |-> "loadFailed"]
    /\ UNCHANGED <<allPrefectures, loading, selectedPrefs, populationCache,
                   isFetching, closurePopulationCache, closureIsFetching,
                   renderPending, inflight, fetchCount, nToggles, outcomes,
                   pureVars>>

\* loadPrefectures: fetchPrefectures threw
LoadPrefecturesRejected ==
    /\ loading
    /\ \E response \in CatalogResponses : fetchPrefectures(response).threw
    /\ error' = "load error"
    /\ loading' = FALSE
    /\ last' = [op |-> "loadFailed"]
    /\ UNCHANGED <<allPrefectures, selectedPrefs, populationCache, isFetching,
                   closurePopulationCache, closureIsFetching, renderPending,
                   inflight, fetchCount, nToggles, outcomes, pureVars>>

\* Home renders PrefectureList only past the loading and error returns
ListRendered == ~loading /\ error = "null"

\* ------------------------------------------- handlePrefectureToggle
ToggleBranch(prefCode, isChecked) ==
    IF ~isChecked THEN "deselect"
    ELSE IF CacheHit(closurePopulationCache, prefCode) THEN "cacheHit"
    ELSE IF AlreadyFetching(closureIsFetching, prefCode) THEN "dedup"
    ELSE "fetch"

\* The synchronous part of the handler, up to the await (or the return),
\* followed by the render that React flushes at the end of the change event.
handlePrefectureToggle(prefCode, isChecked, prefName) ==
    LET branch == ToggleBranch(prefCode, isChecked) IN
    /\ nToggles < MaxToggles
    /\ nToggles' = nToggles + 1
    /\ selectedPrefs' = SelectUpdater(selectedPrefs, prefCode, isChecked)
    /\ IF branch = "deselect"
       THEN /\ populationCache' = EvictUpdater(populationCache, prefCode)
            /\ closurePopulationCache' = EvictUpdater(closurePopulationCache, prefCode)
       ELSE UNCHANGED <<populationCache, closurePopulationCache>>
    /\ IF branch = "fetch"
       THEN /\ isFetching' = FetchStartUpdater(isFetching, prefCode)
            /\ closureIsFetching' = FetchStartUpdater(closureIsFetching, prefCode)
            /\ inflight' = inflight (+) SetToBag({Call(prefCode, prefName)})
            /\ fetchCount' = fetchCount + 1
       ELSE UNCHANGED <<isFetching, closureIsFetching, inflight, fetchCount>>
    /\ last' = [op |-> "toggle", prefCode |-> prefCode, isChecked |-> isChecked,
                branch |-> branch,
                wasCached |-> prefCode \in DOMAIN populationCache,
                wasOutstanding |-> Outstanding(prefCode)]
    /\ UNCHANGED <<homeVars, renderPending, outcomes, pureVars>>

\* onChange of a checkbox of PrefectureList
Toggle ==
    /\ ListRendered
    /\ \E i \in 1..Len(allPrefectures), isChecked \in BOOLEAN :
          handlePrefectureToggle(allPrefectures[i].prefCode, isChecked,
                                 allPrefectures[i].prefName)

\* The continuation after `await fetchPopulation(...)` resolved
SettleResolved(call, newPopulationData) ==
    /\ BagIn(call, inflight)
    /\ inflight' = inflight (-) SetToBag({call})
    /\ IF HasValidData(newPopulationData)
       THEN /\ populationCache' =
                  CacheAddUpdater(populationCache, call.prefCode, newPopulationData)
            /\ UNCHANGED selectedPrefs
       ELSE \* throw new Error(...) -> catch
            /\ selectedPrefs' = RollbackUpdater(selectedPrefs, call.prefCode)
            /\ UNCHANGED populationCache
    /\ isFetching' = FetchEndUpdater(isFetching, call.prefCode)
    /\ renderPending' = TRUE
    /\ outcomes' = Spread(outcomes, call.prefCode,
                          [kind |-> "resolved", data |-> newPopulationData.data,
                           concurrent |-> BagCardinality(inflight)])
    /\ last' = [op |-> "settle", prefCode |-> call.prefCode,
                outcome |-> IF HasValidData(newPopulationData)
                            THEN "success" ELSE "empty",
                handler |-> "fulfilled",
                wasSelected |-> Truthy(selectedPrefs, call.prefCode)]
    /\ UNCHANGED <<homeVars, closurePopulationCache, closureIsFetching,
                   fetchCount, nToggles, pureVars>>

\* The continuation after `await fetchPopulation(...)` threw
SettleRejected(call) ==
    /\ BagIn(call, inflight)
    /\ inflight' = inflight (-) SetToBag({call})
    /\ selectedPrefs' = RollbackUpdater(selectedPrefs, call.prefCode)
    /\ isFetching' = FetchEndUpdater(isFetching, call.prefCode)
    /\ renderPending' = TRUE
    /\ outcomes' = Spread(outcomes, call.prefCode,
                          [kind |-> "rejected", data |-> <<>>,
                           concurrent |-> BagCardinality(inflight)])
    /\ last' = [op |-> "settle", prefCode |-> call.prefCode,
                outcome |-> "error", handler |-> "fulfilled",
                wasSelected |-> Truthy(selectedPrefs, call.prefCode)]
    /\ UNCHANGED <<homeVars, populationCache, closurePopulationCache,
                   closureIsFetching, fetchCount, nToggles, pureVars>>

FetchSettles ==
    \E call \in BagToSet(inflight) :
        \/ \E data \in PopulationSeries :
              SettleResolved(call,
                  fetchPopulationResult(call.prefCode, call.prefName, data))
        \/ SettleRejected(call)

\* The render scheduled by the updates made after the await: the hook runs
\* again and useCallback captures the current populationCache and isFetching.
Render ==
    /\ renderPending
    /\ renderPending' = FALSE
    /\ closurePopulationCache' = populationCache
    /\ closureIsFetching' = isFetching
    /\ last' = [op |-> "render"]
    /\ UNCHANGED <<homeVars, selectedPrefs, populationCache, isFetching,
                   inflight, fetchCount, nToggles, outcomes, pureVars>>

Next ==
    \/ LoadPrefecturesResolved
    \/ LoadPrefecturesRejected
    \/ Toggle
    \/ FetchSettles
    \/ Render

Spec == Init /\ [][Next]_vars

\* Every fetch promise settles (the browser's fetch resolves or rejects) and
\* the scheduled render runs.
FairSpec ==
    /\ Spec
    /\ WF_vars(FetchSettles)
    /\ WF_vars(LoadPrefecturesResolved \/ LoadPrefecturesRejected)
    /\ WF_vars(Render)

\* ------------------------------------------------------ derived views
Colors == <<"#E53935", "#43A047", "#1E88E5", "#FFB300", "#8E24AA",
            "#00ACC1", "#F4511E", "#6D4C41", "#546E7A", "#D81B60">>

\* the 1-based code used as the index: prefCode % colors.length
getPrefectureColor_NoOffset(prefCode) == Colors[(prefCode % Len(Colors)) + 1]

\* colors[(prefCode - 1) % colors.length], for the 1-based codes of the catalog
getPrefectureColor(prefCode) == Colors[((prefCode - 1) % Len(Colors)) + 1]

\* the selection filter forgotten: every catalog code is listed
selectedPrefCodeList_All ==
    [i \in 1..Len(allPrefectures) |-> allPrefectures[i].prefCode]

\* allPrefectures.filter(pref => selectedPrefs[pref.prefCode]).map(pref => pref.prefCode)
selectedPrefCodeList ==
    LET picked == SelectSeq(allPrefectures,
                            LAMBDA pref : Truthy(selectedPrefs, pref.prefCode))
    IN [i \in 1..Len(picked) |-> picked[i].prefCode]

\* the pair written the wrong way round
chartPoints_Swapped(data) ==
    [i \in 1..Len(data) |-> <<data[i].value, data[i].year>>]

\* data.data.map(item => [item.year, item.value])
chartPoints(data) == [i \in 1..Len(data) |-> <<data[i].year, data[i].value>>]

\* selectedPrefCodes.map(prefCode => populationCache[prefCode]).filter(data => !!data)
dataForChart ==
    LET present == SelectSeq(selectedPrefCodeList,
                             LAMBDA prefCode : prefCode \in DOMAIN populationCache)
    IN [i \in 1..Len(present) |-> populationCache[present[i]]]

\* the value of the chartSeries memo for the current state
chartSeries ==
    [i \in 1..Len(dataForChart) |->
        [name  |-> dataForChart[i].prefName,
         data  |-> chartPoints(dataForChart[i].data),
         color |-> getPrefectureColor(dataForChart[i].prefCode)]]

\* the catalog name of a code
NameOf(prefCode) == PrefNames[prefCode]

\* chartSeries has a series for the code
Plotted(prefCode) ==
    \E i \in 1..Len(chartSeries) : chartSeries[i].name = NameOf(prefCode)

ToggledOn == last.op = "toggle" /\ last.isChecked
ToggledOff == last.op = "toggle" /\ ~last.isChecked
Settled == last.op = "settle"

\* ------------------------------------------------------------------ C1
\* C1: in-flight dedup.  At most one fetchPopulation call is outstanding per
\* code in every reachable state, and a toggle-on issued while a call for
\* that code is outstanding issues no further call: the call that was
\* outstanding stays the only one.
C1_InFlightDedup ==
    /\ \A prefCode \in PrefCodes : Outstanding(prefCode) <= 1
    /\ (ToggledOn /\ last.wasOutstanding >= 1) =>
          /\ Outstanding(last.prefCode) = last.wasOutstanding
          /\ last.branch # "fetch"

\* two toggles-on for one code, the second while the fetch of the first is
\* outstanding
C1_Witness ==
    /\ ToggledOn /\ last.branch = "dedup"
    /\ nToggles = 2 /\ fetchCount = 1
    /\ DOMAIN selectedPrefs = {last.prefCode}
    /\ Outstanding(last.prefCode) = 1

\* ------------------------------------------------------------------ C2
\* C2: cache-hit short-circuit.  A toggle-on of a code that has a cache
\* entry issues no fetchPopulation call and changes neither populationCache
\* nor isFetching; it only sets selectedPrefs[code] to true.
C2_CacheHitShortCircuit ==
    [][ (/\ nToggles' = nToggles + 1
         /\ last'.isChecked
         /\ last'.prefCode \in DOMAIN populationCache)
        => /\ fetchCount' = fetchCount
           /\ inflight' = inflight
           /\ populationCache' = populationCache
           /\ isFetching' = isFetching
           /\ selectedPrefs' = Spread(selectedPrefs, last'.prefCode, TRUE) ]_vars

\* a toggle-on that found its code cached, with the code deselected before
C2_Witness ==
    /\ ToggledOn /\ last.wasCached /\ last.branch = "cacheHit"
    /\ last.prefCode \in DOMAIN populationCache
    /\ Truthy(selectedPrefs, last.prefCode)

\* ------------------------------------------------------------------ C3
\* C3: rollback on failure.  Right after a fetch settles with an error or
\* with zero points, selectedPrefs[code] is false and the code has no cache
\* entry, whatever toggles came in between; the handler's promise is
\* fulfilled, the error does not leave it.
C3_RollbackOnFailure ==
    (Settled /\ last.outcome \in {"error", "empty"}) =>
        /\ last.prefCode \in DOMAIN selectedPrefs
        /\ selectedPrefs[last.prefCode] = FALSE
        /\ last.prefCode \notin DOMAIN populationCache
        /\ last.handler = "fulfilled"

\* a failed settlement after the code was toggled on, off and on again
C3_Witness ==
    /\ Settled /\ last.outcome = "error" /\ last.wasSelected
    /\ nToggles = 3 /\ fetchCount = 1
    /\ DOMAIN selectedPrefs = {last.prefCode}

\* ------------------------------------------------------------------ C4
\* C4: the result of a fetch that settles successfully while its code is
\* deselected is discarded: no code whose selection is false ever has a
\* cache entry.
C4_StaleResultDiscarded ==
    \A prefCode \in DOMAIN populationCache : Truthy(selectedPrefs, prefCode)

\* ------------------------------------------------------------------ C5
\* C5: eager eviction.  Right after toggle(code, false) the code has no
\* cache entry and no series in chartSeries, with or without a fetch in
\* flight.
C5_EagerEviction ==
    ToggledOff =>
        /\ last.prefCode \notin DOMAIN populationCache
        /\ ~Plotted(last.prefCode)

\* a cached code was toggled off
C5_Witness ==
    /\ ToggledOff /\ last.wasCached
    /\ last.prefCode \notin DOMAIN populationCache

\* ------------------------------------------------------------------ C6
\* allPrefectures.filter(...).map(pref => ({ ...pref, color }))
selectedPrefecturesWithColor ==
    LET picked == SelectSeq(allPrefectures,
                            LAMBDA pref : Truthy(selectedPrefs, pref.prefCode))
    IN [i \in 1..Len(picked) |->
           [prefCode |-> picked[i].prefCode, prefName |-> picked[i].prefName,
            color |-> getPrefectureColor(picked[i].prefCode)]]

\* the object usePopulationData returns
usePopulationDataReturn ==
    [selectedPrefCodeList         |-> selectedPrefCodeList,
     currentPopulationType        |-> "total",
     handlePrefectureToggle       |-> "handlePrefectureToggle",
     setCurrentPopulationType     |-> "noop",
     chartSeries                  |-> chartSeries,
     isFetching                   |-> isFetching,
     selectedPrefecturesWithColor |-> selectedPrefecturesWithColor]

\* const { selectedPrefs, ... } = usePopulationData(allPrefectures): a
\* property the object lacks destructures to undefined
HomeSelectedPrefs ==
    IF "selectedPrefs" \in DOMAIN usePopulationDataReturn
    THEN [defined |-> TRUE, value |-> usePopulationDataReturn.selectedPrefs]
    ELSE [defined |-> FALSE, value |-> EmptyObject]

\* checked={selectedPrefs[pref.prefCode] || false}: indexing undefined throws
\* a TypeError while PrefectureList renders
CheckboxChecked(prefCode) ==
    IF HomeSelectedPrefs.defined
    THEN [threw |-> FALSE, checked |-> Truthy(HomeSelectedPrefs.value, prefCode)]
    ELSE [threw |-> TRUE, checked |-> FALSE]

\* C6: optimistic update.  Right after toggle(code, checked), on every
\* branch, selectedPrefs[code] equals checked and the checkbox that the UI
\* renders for the code shows that value.
C6_OptimisticUpdate ==
    last.op = "toggle" =>
        /\ last.prefCode \in DOMAIN selectedPrefs
        /\ selectedPrefs[last.prefCode] = last.isChecked
        /\ ~CheckboxChecked(last.prefCode).threw
        /\ CheckboxChecked(last.prefCode).checked = last.isChecked

\* ------------------------------------------------------------------ C7
\* the catalog entries that are selected and cached, in catalog order
SelectedAndCached ==
    SelectSeq(allPrefectures,
              LAMBDA pref : /\ pref.prefCode \in DOMAIN selectedPrefs
                            /\ selectedPrefs[pref.prefCode]
                            /\ pref.prefCode \in DOMAIN populationCache)

\* C7: chartSeries holds exactly one series for each catalog code that is
\* selected and cached, in catalog order, and nothing else: a code that is
\* selected but pending or failed, or cached but not selected, has none.
C7_ChartSeriesIsSelectionAndCache ==
    /\ Len(chartSeries) = Len(SelectedAndCached)
    /\ \A i \in 1..Len(chartSeries) :
          chartSeries[i].name = SelectedAndCached[i].prefName
    /\ \A prefCode \in PrefCodes :
          Plotted(prefCode) <=>
             /\ Truthy(selectedPrefs, prefCode)
             /\ prefCode \in DOMAIN populationCache
             /\ \E i \in 1..Len(allPrefectures) : allPrefectures[i].prefCode = prefCode

\* one code plotted, one cached but deselected, so absent from the chart
C7_Witness ==
    /\ Len(chartSeries) = 1
    /\ \E prefCode \in DOMAIN populationCache : ~Truthy(selectedPrefs, prefCode)

\* ------------------------------------------------------------------ C8
\* C8: derived view.  Every series of chartSeries is built from the cache
\* entry of its code alone: the entry's name (the catalog name), the
\* entry's points as (year, value) pairs in the same order, and the color
\* that the palette gives the code.
C8_DerivedView ==
    /\ Len(chartSeries) = Len(SelectedAndCached)
    /\ \A i \in 1..Len(SelectedAndCached) :
          LET prefCode == SelectedAndCached[i].prefCode
              entry == populationCache[prefCode]
          IN /\ chartSeries[i].name = entry.prefName
             /\ entry.prefName = SelectedAndCached[i].prefName
             /\ Len(chartSeries[i].data) = Len(entry.data)
             /\ \A j \in 1..Len(entry.data) :
                   chartSeries[i].data[j] = <<entry.data[j].year, entry.data[j].value>>
             /\ chartSeries[i].color = Colors[((prefCode - 1) % 10) + 1]

\* two series plotted, one of them with two points
C8_Witness ==
    /\ Len(chartSeries) = 2
    /\ \E i \in 1..2 : Len(chartSeries[i].data) = 2
    /\ chartSeries[1].color # chartSeries[2].color

\* ------------------------------------------------------------------ C9
\* the maps agree on a key: both lack it or both hold the same value
SameAt(before, after, key) ==
    /\ key \in DOMAIN before <=> key \in DOMAIN after
    /\ key \in DOMAIN before => before[key] = after[key]

\* C9: per-code isolation.  A toggle or a fetch settlement for code A
\* leaves selectedPrefs, isFetching and populationCache of every other code
\* B as they were; a failed fetch rolls back its own code only.
C9_PerCodeIsolation ==
    [][ last'.op \in {"toggle", "settle"} =>
          \A B \in PrefCodes \ {last'.prefCode} :
             /\ SameAt(selectedPrefs, selectedPrefs', B)
             /\ SameAt(isFetching, isFetching', B)
             /\ SameAt(populationCache, populationCache', B) ]_vars

\* a fetch failed and was rolled back while another code is selected and
\* cached
C9_Witness ==
    /\ Settled /\ last.outcome \in {"error", "empty"}
    /\ \E B \in PrefCodes \ {last.prefCode} :
          /\ Truthy(selectedPrefs, B)
          /\ B \in DOMAIN populationCache

\* ----------------------------------------------------------------- C10
\* every toggle so far was a toggle-on of a code not toggled before, and
\* each started a fetch
LaunchOnly ==
    /\ nToggles = Cardinality(DOMAIN selectedPrefs)
    /\ fetchCount = nToggles

\* C10: N outstanding fetches for N distinct codes.  After toggles-on of N
\* distinct uncached codes each code has its own fetch in flight until it
\* settles, and once a code's fetch has settled its selection, fetching
\* flag and cache entry are a function of that fetch's outcome alone, so the
\* final state is the same for every order of settlement.
C10_IndependentFetches ==
    LaunchOnly =>
      \A prefCode \in DOMAIN selectedPrefs :
        IF prefCode \notin DOMAIN outcomes
        THEN /\ Outstanding(prefCode) = 1
             /\ Truthy(isFetching, prefCode)
             /\ selectedPrefs[prefCode] = TRUE
             /\ prefCode \notin DOMAIN populationCache
        ELSE /\ Outstanding(prefCode) = 0
             /\ prefCode \in DOMAIN isFetching
             /\ isFetching[prefCode] = FALSE
             /\ IF outcomes[prefCode].kind = "resolved"
                   /\ Len(outcomes[prefCode].data) > 0
                THEN /\ selectedPrefs[prefCode] = TRUE
                     /\ prefCode \in DOMAIN populationCache
                     /\ populationCache[prefCode] =
                           [prefCode |-> prefCode,
                            prefName |-> NameOf(prefCode),
                            data |-> outcomes[prefCode].data]
                ELSE /\ selectedPrefs[prefCode] = FALSE
                     /\ prefCode \notin DOMAIN populationCache

\* two fetches were in flight at once and both have settled, one with
\* points and one without
C10_Witness ==
    /\ LaunchOnly
    /\ nToggles = 2
    /\ inflight = EmptyBag
    /\ \E prefCode \in DOMAIN outcomes : outcomes[prefCode].concurrent = 2
    /\ \E prefCode \in DOMAIN outcomes : prefCode \in DOMAIN populationCache
    /\ \E prefCode \in DOMAIN outcomes : prefCode \notin DOMAIN populationCache

\* ----------------------------------------------------------------- C11
\* C11: isFetching is finally cleared.  Given that every fetch promise
\* settles, a code whose fetch is in flight (isFetching true) is eventually
\* followed by a state with isFetching[code] false, and right after the
\* settlement that clears it the code has a cache entry or its selection
\* is false.
C11_FetchStatusFinallyCleared ==
    /\ \A prefCode \in PrefCodes :
          Truthy(isFetching, prefCode) ~> ~Truthy(isFetching, prefCode)
    /\ [](Settled =>
            /\ last.prefCode \in DOMAIN isFetching
            /\ isFetching[last.prefCode] = FALSE
            /\ \/ last.prefCode \in DOMAIN populationCache
               \/ ~Truthy(selectedPrefs, last.prefCode))

\* a fetch settled and its flag is cleared, with the code cached
C11_Witness ==
    /\ Settled /\ last.outcome = "success"
    /\ last.prefCode \in DOMAIN isFetching
    /\ isFetching[last.prefCode] = FALSE
    /\ last.prefCode \in DOMAIN populationCache
    /\ Truthy(selectedPrefs, last.prefCode)

\* ----------------------------------------------------------------- C12
\* the latest fetch of the code failed and was rolled back, and the code is
\* now unselected, uncached and has no fetch outstanding
RolledBack(prefCode) ==
    /\ prefCode \in DOMAIN outcomes
    /\ ~(outcomes[prefCode].kind = "resolved" /\ Len(outcomes[prefCode].data) > 0)
    /\ ~Truthy(selectedPrefs, prefCode)
    /\ prefCode \notin DOMAIN populationCache
    /\ Outstanding(prefCode) = 0

\* the number of calls for the code in a bag of calls
CallsFor(calls, prefCode) ==
    LET matching == {c \in BagToSet(calls) : c.prefCode = prefCode}
    IN IF matching = {} THEN 0
       ELSE CopiesIn(CHOOSE c \in matching : TRUE, calls)

\* C12: no automatic retry, and a re-toggle retries.  A fetchPopulation
\* call is issued only by a toggle(code, true) step, one call per step, and
\* a toggle(code, true) of a code that was rolled back starts a new fetch.
C12_RetryOnlyByReToggle ==
    [][ /\ fetchCount' # fetchCount =>
             /\ nToggles' = nToggles + 1
             /\ last'.isChecked
             /\ fetchCount' = fetchCount + 1
             /\ CallsFor(inflight', last'.prefCode) =
                   CallsFor(inflight, last'.prefCode) + 1
        /\ (/\ nToggles' = nToggles + 1
            /\ last'.isChecked
            /\ RolledBack(last'.prefCode))
           => /\ fetchCount' = fetchCount + 1
              /\ CallsFor(inflight', last'.prefCode) = 1 ]_vars

\* ----------------------------------------------------------------- C21
\* C21: isFetching[code] is true exactly while a fetch for the code is
\* outstanding: never true with no fetchPopulation call in flight for the
\* code, never false (or absent) while one is in flight.
C21_FetchStatusInvariant ==
    \A prefCode \in PrefCodes :
        Truthy(isFetching, prefCode) <=> Outstanding(prefCode) > 0

\* a fetch is outstanding for one code while the fetch of the other code
\* has already settled and cleared its flag
C21_Witness ==
    \E a, b \in PrefCodes :
        /\ a # b
        /\ Truthy(isFetching, a) /\ Outstanding(a) = 1
        /\ b \in DOMAIN isFetching /\ isFetching[b] = FALSE
        /\ b \in DOMAIN outcomes /\ Outstanding(b) = 0

\* ----------------------------------------------------------------- C22
\* C22: cache entries come only from successful fetches.  Every cache
\* entry has at least one point and carries the code it is stored under,
\* and a step after which a code has an entry that it did not have, or a
\* different one, is the settlement of a fetch of that code that resolved
\* with at least one point.
C22_CacheOnlyFromSuccess ==
    /\ [](\A prefCode \in DOMAIN populationCache :
              /\ Len(populationCache[prefCode].data) >= 1
              /\ populationCache[prefCode].prefCode = prefCode)
    /\ [][\A prefCode \in DOMAIN populationCache' :
              (prefCode \notin DOMAIN populationCache
               \/ populationCache'[prefCode] # populationCache[prefCode])
              => /\ last'.op = "settle"
                 /\ last'.outcome = "success"
                 /\ last'.prefCode = prefCode
                 /\ CallsFor(inflight', prefCode) = CallsFor(inflight, prefCode) - 1
                 /\ Len(populationCache'[prefCode].data) >= 1]_vars

\* one fetch wrote the cache, and another resolved with zero points or
\* failed and left no entry
C22_Witness ==
    \E a, b \in PrefCodes :
        /\ a \in DOMAIN populationCache
        /\ b \in DOMAIN outcomes
        /\ ~(outcomes[b].kind = "resolved" /\ Len(outcomes[b].data) > 0)
        /\ b \notin DOMAIN populationCache

\* ----------------------------------------------------------------- C23
\* C23: no stuck selection.  A code whose selection is true has a cache
\* entry or a fetch in flight (isFetching true).
C23_NoStuckSelection ==
    \A prefCode \in PrefCodes :
        Truthy(selectedPrefs, prefCode) =>
            \/ prefCode \in DOMAIN populationCache
            \/ Truthy(isFetching, prefCode)

\* ======================================================================
\* The aggregation of raw feature records and the fetch pipeline
\* (src/src/lib/api.ts, src/src/app/api/yumemi/[...path]/route.ts and the
\* api.ts copy in src/unnamed/part_000), called as pure functions.
\* ======================================================================

\* ------------------------------------------------------------- bounds
MaxFeatures == 2
MaxCalls == 2
MaxCode == 12

\* ----------------------------------------------------- JS primitives
\* Strings are tuples of one-character strings.
DigitChars == <<"0", "1", "2", "3", "4", "5", "6", "7", "8", "9">>

IsDigit(ch) == \E d \in 1..Len(DigitChars) : DigitChars[d] = ch

DigitValue(ch) == (CHOOSE d \in 1..Len(DigitChars) : DigitChars[d] = ch) - 1

RECURSIVE SkipWhitespace(_)
SkipWhitespace(str) ==
    IF str # <<>> /\ Head(str) = " " THEN SkipWhitespace(Tail(str)) ELSE str

RECURSIVE DigitPrefix(_)
DigitPrefix(str) ==
    IF str # <<>> /\ IsDigit(Head(str))
    THEN <<Head(str)>> \o DigitPrefix(Tail(str))
    ELSE <<>>

RECURSIVE DecimalValue(_)
DecimalValue(digits) ==
    IF digits = <<>> THEN 0
    ELSE DecimalValue(SubSeq(digits, 1, Len(digits) - 1)) * 10
         + DigitValue(digits[Len(digits)])

\* parseInt(str, 10): leading whitespace is skipped, a sign is accepted, the
\* longest run of decimal digits is read and whatever follows is ignored;
\* NaN when there is no digit to read.
parseInt(str) ==
    LET s      == SkipWhitespace(str)
        signed == s # <<>> /\ Head(s) \in {"+", "-"}
        digits == DigitPrefix(IF signed THEN Tail(s) ELSE s)
    IN IF digits = <<>>
       THEN [nan |-> TRUE, val |-> 0]
       ELSE [nan |-> FALSE,
             val |-> IF signed /\ Head(s) = "-"
                     THEN 0 - DecimalValue(digits) ELSE DecimalValue(digits)]

isNaN(number) == number.nan

\* A Map is the tuple of its entries in insertion order.
\* map.get(key)
MapGet(map, key) ==
    IF \E i \in 1..Len(map) : map[i].key = key
    THEN [defined |-> TRUE,
          val |-> map[CHOOSE i \in 1..Len(map) : map[i].key = key].val]
    ELSE [defined |-> FALSE, val |-> 0]

\* map.set(key, val): an existing key keeps its place
MapSet(map, key, val) ==
    IF \E i \in 1..Len(map) : map[i].key = key
    THEN [i \in 1..Len(map) |->
             IF map[i].key = key THEN [key |-> key, val |-> val] ELSE map[i]]
    ELSE Append(map, [key |-> key, val |-> val])

\* got || 0
OrZero(got) == IF got.defined /\ got.val # 0 THEN got.val ELSE 0

\* map.forEach((value, year) => populationValues.push({ year, value }))
MapToValues(map) ==
    [i \in 1..Len(map) |-> [year |-> map[i].key, value |-> map[i].val]]

\* the sort forgotten
SortByYear_None(populationValues) == populationValues

\* populationValues.sort((a, b) => a.year - b.year)
SortByYear(populationValues) ==
    SortSeq(populationValues, LAMBDA a, b : a.year - b.year < 0)

\* ---------------------------------------- src/src/lib/api.ts, 76-113
\* the name filter dropped
NameMatches_Any(properties, prefName) == TRUE

\* properties.N03_001 === prefName
NameMatches(properties, prefName) == properties.N03_001 = prefName

\* the check of the value dropped
BothParsed_YearOnly(year, value) == ~isNaN(year)

\* !isNaN(year) && !isNaN(value)
BothParsed(year, value) == ~isNaN(year) /\ ~isNaN(value)

\* the year's total overwritten instead of added to
Accumulated_Overwrite(currentTotal, value) == value

\* currentTotal + value
Accumulated(currentTotal, value) == currentTotal + value

\* the Map kept from the previous call instead of a new one
FreshMap_Hoisted(previous) == previous

\* const yearlyPopulationMap = new Map<number, number>(): a new Map in each
\* call, whatever Map the previous call left behind
FreshMap(previous) == <<>>

\* the body of json.features.forEach for one feature
LibVisit(map, feature, prefName) ==
    LET properties == feature.properties IN
    IF NameMatches(properties, prefName)
    THEN LET year  == parseInt(properties.N03_007)
             value == parseInt(properties.N03_004)
         IN IF BothParsed(year, value)
            THEN MapSet(map, year.val,
                        Accumulated(OrZero(MapGet(map, year.val)), value.val))
            ELSE map
    ELSE map

RECURSIVE LibForEach(_, _, _)
LibForEach(map, features, prefName) ==
    IF features = <<>> THEN map
    ELSE LibForEach(LibVisit(map, Head(features), prefName),
                    Tail(features), prefName)

\* fetchPopulation of src/src/lib/api.ts past `const json = await
\* response.json()`, with the Map of the previous call at hand
fetchPopulation(prefCode, prefName, json, previousMap) ==
    IF "features" \notin DOMAIN json
    THEN [threw |-> FALSE, map |-> previousMap,
          value |-> [prefCode |-> prefCode, prefName |-> prefName, data |-> <<>>]]
    ELSE LET map == LibForEach(FreshMap(previousMap), json.features, prefName)
         IN [threw |-> FALSE, map |-> map,
             value |-> [prefCode |-> prefCode, prefName |-> prefName,
                        data |-> SortByYear(MapToValues(map))]]

\* ------------------- src/src/app/api/yumemi/[...path]/route.ts, 104-138
RECURSIVE RouteForEach(_, _, _)
RouteForEach(map, features, prefName) ==
    IF features = <<>> THEN map
    ELSE LET properties == Head(features).properties
             year  == parseInt(properties.N03_007)
             value == parseInt(properties.N03_004)
             next  == IF properties.N03_001 = prefName
                         /\ ~isNaN(year) /\ ~isNaN(value)
                      THEN MapSet(map, year.val,
                                  OrZero(MapGet(map, year.val)) + value.val)
                      ELSE map
         IN RouteForEach(next, Tail(features), prefName)

\* the sort of populationValues forgotten in the route
RoutePopulationBody_Unsorted(prefCode, prefName, json) ==
    IF "features" \notin DOMAIN json
    THEN [prefCode |-> prefCode, prefName |-> prefName, data |-> <<>>]
    ELSE [prefCode |-> prefCode, prefName |-> prefName,
          data |-> MapToValues(RouteForEach(<<>>, json.features, prefName))]

\* the JSON body GET answers to /api/yumemi/population when the external
\* API answered ok with json
RoutePopulationBody(prefCode, prefName, json) ==
    IF "features" \notin DOMAIN json
    THEN [prefCode |-> prefCode, prefName |-> prefName, data |-> <<>>]
    ELSE [prefCode |-> prefCode, prefName |-> prefName,
          data |-> SortSeq(MapToValues(RouteForEach(<<>>, json.features, prefName)),
                           LAMBDA a, b : a.year - b.year < 0)]

\* apiResponse.ok
Ok(apiResponse) == apiResponse.status \in 200..299

\* await apiResponse.json(): rejects when the body was read before; reads
\* the body to its end (a body that is not null is used from then on) and
\* parses it, rejecting when the text is not JSON
ResponseJson(apiResponse, bodyUsed) ==
    IF bodyUsed
    THEN [threw |-> TRUE, value |-> <<>>, bodyUsed |-> TRUE]
    ELSE IF apiResponse.body.kind = "json"
    THEN [threw |-> FALSE, value |-> apiResponse.body.json, bodyUsed |-> TRUE]
    ELSE [threw |-> TRUE, value |-> <<>>,
          bodyUsed |-> apiResponse.body.kind # "null"]

\* await apiResponse.text(): rejects when the body was read before
ResponseText(apiResponse, bodyUsed) ==
    IF bodyUsed
    THEN [threw |-> TRUE, value |-> ""]
    ELSE [threw |-> FALSE,
          value |-> IF apiResponse.body.kind = "text"
                    THEN apiResponse.body.text ELSE ""]

\* searchParams.get(name): the value, or null (prefCode is held as its
\* characters, prefName as a string)
SearchParamsGet(searchParams, name) ==
    IF name \in DOMAIN searchParams
    THEN [null |-> FALSE, value |-> searchParams[name]]
    ELSE [null |-> TRUE, value |-> IF name = "prefCode" THEN <<>> ELSE ""]

\* !x of a string or null
Missing(got, name) ==
    got.null \/ got.value = (IF name = "prefCode" THEN <<>> ELSE "")

\* Number(str) of a string of decimal digits; NaN for other text
Number(got) ==
    IF got.null \/ got.value = <<>> THEN [nan |-> FALSE, val |-> 0]
    ELSE IF \A i \in 1..Len(got.value) : IsDigit(got.value[i])
    THEN [nan |-> FALSE, val |-> DecimalValue(got.value)]
    ELSE [nan |-> TRUE, val |-> 0]

\* the response of the outer catch
InternalServerError ==
    [status |-> 500,
     body |-> [error |-> "Internal Server Error during proxy execution."]]

\* the request passes the path branch and reaches the external fetch
Forwarded(apiPath, searchParams) ==
    \/ apiPath = "prefectures"
    \/ /\ apiPath = "population"
       /\ ~Missing(SearchParamsGet(searchParams, "prefCode"), "prefCode")
       /\ ~Missing(SearchParamsGet(searchParams, "prefName"), "prefName")

\* the `if (!apiResponse.ok)` block
BadGateway(apiPath, apiResponse) ==
    LET parsed == ResponseJson(apiResponse, FALSE) IN
    IF ~parsed.threw
    THEN [status |-> 502,
          body |-> [error |-> <<"External API returned error for", apiPath,
                               apiResponse.status>>,
                    details |-> parsed.value]]
    ELSE LET rawText == ResponseText(apiResponse, parsed.bodyUsed) IN
         IF rawText.threw
         THEN InternalServerError
         ELSE [status |-> 502,
               body |-> [error |-> <<"External API returned error for", apiPath,
                                    apiResponse.status>>,
                         details |-> [message |-> "Non-JSON error response received from external API.",
                                      rawText |-> rawText.value]]]

\* GET of the route: apiResponse is what fetch(externalEndpoint) comes to
\* (settled FALSE: the fetch rejected)
GET(apiPath, searchParams, apiResponse) ==
    IF apiPath \notin {"prefectures", "population"}
    THEN [status |-> 404, body |-> [error |-> "API path not found."]]
    ELSE IF ~Forwarded(apiPath, searchParams)
    THEN [status |-> 400, body |-> [error |-> "Prefecture code or name is missing."]]
    ELSE IF ~apiResponse.settled
    THEN InternalServerError
    ELSE IF ~Ok(apiResponse)
    THEN BadGateway(apiPath, apiResponse)
    ELSE LET parsed == ResponseJson(apiResponse, FALSE) IN
         IF parsed.threw
         THEN InternalServerError
         ELSE IF apiPath = "population"
         THEN [status |-> 200,
               body |-> RoutePopulationBody(
                            Number(SearchParamsGet(searchParams, "prefCode")).val,
                            SearchParamsGet(searchParams, "prefName").value,
                            parsed.value)]
         ELSE [status |-> 200, body |-> parsed.value]

\* ------------------------------------ src/unnamed/part_000, 147-201
RECURSIVE PageForEach(_, _, _)
PageForEach(map, features, prefName) ==
    IF features = <<>> THEN map
    ELSE LET properties == Head(features).properties
             year  == parseInt(properties.N03_007)
             value == parseInt(properties.N03_004)
             next  == IF properties.N03_001 = prefName
                         /\ ~isNaN(year) /\ ~isNaN(value)
                      THEN MapSet(map, year.val,
                                  OrZero(MapGet(map, year.val)) + value.val)
                      ELSE map
         IN PageForEach(next, Tail(features), prefName)

\* fetchPopulation of the api.ts that requests /api/yumemi/population, past
\* `const json = await response.json()`: json is the body the route sent
fetchPopulationViaProxy(prefCode, prefName, json) ==
    IF "features" \notin DOMAIN json
    THEN [threw |-> FALSE,
          value |-> [prefCode |-> prefCode, prefName |-> prefName, data |-> <<>>]]
    ELSE [threw |-> FALSE,
          value |-> [prefCode |-> prefCode, prefName |-> prefName,
                     data |-> SortSeq(MapToValues(PageForEach(<<>>, json.features, prefName)),
                                      LAMBDA a, b : a.year - b.year < 0)]]

\* ----------------------------------------------------- the inputs
\* N03_007 fields: two years, a year behind a blank, a year with a suffix,
\* and text
YearFields ==
    { <<"1", "9", "9", "5">>, <<"2", "0", "0", "0">>,
      <<" ", "1", "9", "9", "5">>, <<"2", "0", "0", "0", "x">>,
      <<"a", "b", "c">> }

\* N03_004 fields
ValueFields == { <<"1", "0", "0">>, <<"5", "0">>, <<"a", "b", "c">> }

TargetCodes == {1, 2}

RawFeatures ==
    { [properties |-> [N03_001 |-> PrefNames[c], N03_007 |-> y, N03_004 |-> v]] :
        c \in TargetCodes, y \in YearFields, v \in ValueFields }

FeatureArrays == UNION { [1..n -> RawFeatures] : n \in 0..MaxFeatures }

\* JSON bodies of the external API: a feature collection, or a body
\* without features
UpstreamBodies ==
    { [features |-> fs] : fs \in FeatureArrays } \cup { [message |-> "no data"] }

\* requests to /api/yumemi/<path>
ProxyPaths == {"prefectures", "population", "other"}

ProxySearchParams ==
    { <<>>,
      [prefCode |-> <<"1">>],
      [prefCode |-> <<"1">>, prefName |-> "Pref1"] }

\* what fetch(externalEndpoint) comes to: a rejection, an ok answer with a
\* JSON body or with text, an error status with a JSON body or with text
\* (empty or not), or 304 without a body
ExternalResponses ==
    { [settled |-> FALSE, status |-> 0, body |-> [kind |-> "null"]] }
    \cup { [settled |-> TRUE, status |-> 200, body |-> [kind |-> "json", json |-> j]] :
             j \in { [result |-> Catalog],
                     [message |-> "no data"],
                     [features |-> << [properties |->
                                         [N03_001 |-> "Pref1",
                                          N03_007 |-> <<"2", "0", "0", "0">>,
                                          N03_004 |-> <<"1", "0", "0">>]] >>] } }
    \cup { [settled |-> TRUE, status |-> 200,
            body |-> [kind |-> "text", text |-> "<html>"]] }
    \cup { [settled |-> TRUE, status |-> st,
            body |-> [kind |-> "json", json |-> [message |-> "upstream failed"]]] :
             st \in {404, 503} }
    \cup { [settled |-> TRUE, status |-> st, body |-> [kind |-> "text", text |-> t]] :
             st \in {404, 503}, t \in {"", "Service Unavailable"} }
    \cup { [settled |-> TRUE, status |-> 304, body |-> [kind |-> "null"]] }

PureInputs ==
    { [kind |-> "population", prefCode |-> c, prefName |-> PrefNames[c], json |-> j] :
        c \in TargetCodes, j \in UpstreamBodies }
    \cup { [kind |-> "color", prefCode |-> c] : c \in 1..MaxCode }
    \cup { [kind |-> "proxy", apiPath |-> p, searchParams |-> q, apiResponse |-> r] :
             p \in ProxyPaths, q \in ProxySearchParams, r \in ExternalResponses }

PureInit ==
    /\ HookInit
    /\ input \in PureInputs
    /\ yearlyPopulationMap = <<>>
    /\ outputs = <<>>

\* One request for the population of input.prefCode: the external body is
\* shaped by fetchPopulation of lib/api.ts, and by the route whose answer
\* the /api/yumemi client then reads.
CallFetchPopulation ==
    /\ input.kind = "population"
    /\ Len(outputs) < MaxCalls
    /\ LET lib    == fetchPopulation(input.prefCode, input.prefName, input.json,
                                     yearlyPopulationMap)
           body   == RoutePopulationBody(input.prefCode, input.prefName, input.json)
           client == fetchPopulationViaProxy(input.prefCode, input.prefName, body)
       IN /\ yearlyPopulationMap' = lib.map
          /\ outputs' = Append(outputs,
                [lib |-> [threw |-> lib.threw, value |-> lib.value],
                 route |-> body,
                 client |-> client,
                 page |-> fetchPopulationViaProxy(input.prefCode, input.prefName,
                                                  input.json)])
    /\ UNCHANGED <<hookVars, input>>

\* One call of getPrefectureColor
CallGetPrefectureColor ==
    /\ input.kind = "color"
    /\ outputs = <<>>
    /\ outputs' = <<getPrefectureColor(input.prefCode)>>
    /\ UNCHANGED <<hookVars, input, yearlyPopulationMap>>

\* One GET request to the route
CallGET ==
    /\ input.kind = "proxy"
    /\ outputs = <<>>
    /\ outputs' = <<GET(input.apiPath, input.searchParams, input.apiResponse)>>
    /\ UNCHANGED <<hookVars, input, yearlyPopulationMap>>

PureNext ==
    \/ CallFetchPopulation
    \/ CallGetPrefectureColor
    \/ CallGET

PureSpec == PureInit /\ [][PureNext]_vars

\* a population request was answered at least once
Shaped == input.kind = "population" /\ Len(outputs) >= 1

HasFeatures == "features" \in DOMAIN input.json

Features == IF HasFeatures THEN input.json.features ELSE <<>>

\* what the Aggregator returned (lib/api.ts)
LibData == outputs[1].lib.value.data

\* ---------------------------------------------- reference definitions
\* the field begins, after blanks and an optional sign, with a digit
ReadsAsInteger(field) ==
    \E blanks \in 0..Len(field) :
       /\ \A i \in 1..blanks : field[i] = " "
       /\ \/ blanks + 1 <= Len(field) /\ IsDigit(field[blanks + 1])
          \/ /\ blanks + 2 <= Len(field)
             /\ field[blanks + 1] \in {"+", "-"}
             /\ IsDigit(field[blanks + 2])

\* the record counts for the target: its name is the target and both of
\* its fields read as integers
Counts(feature, prefName) ==
    /\ feature.properties.N03_001 = prefName
    /\ ReadsAsInteger(feature.properties.N03_007)
    /\ ReadsAsInteger(feature.properties.N03_004)

YearOf(feature) == parseInt(feature.properties.N03_007).val

ValueOf(feature) == parseInt(feature.properties.N03_004).val

\* the sum of the values of the records of features[1..n] that count for
\* the target and carry the year
RECURSIVE SumForYear(_, _, _, _)
SumForYear(features, n, prefName, year) ==
    IF n = 0 THEN 0
    ELSE SumForYear(features, n - 1, prefName, year)
         + (IF Counts(features[n], prefName) /\ YearOf(features[n]) = year
            THEN ValueOf(features[n]) ELSE 0)

\* the years of the records that count for the target
YearsPresent(features, prefName) ==
    { YearOf(features[i]) : i \in {j \in 1..Len(features) : Counts(features[j], prefName)} }

\* ----------------------------------------------------------------- C13
\* C13: the points that the fetchPopulation client hands to the hook, called
\* through the proxy route, are the route's aggregation of the external
\* records, and they are not empty when a record matches and parses.
C13_ClientReturnsAggregation ==
    Shaped =>
        /\ ~outputs[1].client.threw
        /\ outputs[1].client.value.data = outputs[1].route.data
        /\ (\E i \in 1..Len(Features) : Counts(Features[i], input.prefName))
              => outputs[1].client.value.data # <<>>

\* ----------------------------------------------------------------- C14
\* C14: additive merge.  The value of the output point of a year is the sum
\* of the parsed values of all records that carry the target name and whose
\* year parses to that year.
C14_AdditiveMerge ==
    Shaped =>
        /\ \A i \in 1..Len(LibData) :
              LibData[i].value =
                 SumForYear(Features, Len(Features), input.prefName, LibData[i].year)
        /\ \A i \in 1..Len(outputs[1].route.data) :
              outputs[1].route.data[i].value =
                 SumForYear(Features, Len(Features), input.prefName,
                            outputs[1].route.data[i].year)

\* records of the target with values 100 and 50 for the year 2000 give the
\* single point (2000, 150)
C14_Witness ==
    /\ Shaped /\ HasFeatures
    /\ Len(Features) = 2
    /\ \A i \in 1..2 :
          /\ Features[i].properties.N03_001 = input.prefName
          /\ Features[i].properties.N03_007 = <<"2", "0", "0", "0">>
    /\ Features[1].properties.N03_004 = <<"1", "0", "0">>
    /\ Features[2].properties.N03_004 = <<"5", "0">>
    /\ LibData = <<[year |-> 2000, value |-> 150]>>

\* ----------------------------------------------------------------- C15
\* C15: sort invariant.  Whatever the order of the records, the output has
\* exactly one point per year present among the records that count, and its
\* years are strictly ascending.
C15_SortInvariant ==
    Shaped =>
        /\ \A i \in 1..(Len(LibData) - 1) : LibData[i].year < LibData[i + 1].year
        /\ {LibData[i].year : i \in 1..Len(LibData)}
              = YearsPresent(Features, input.prefName)
        /\ Len(LibData) = Cardinality(YearsPresent(Features, input.prefName))

\* the record of 2000 comes before the record of 1995 and the output is in
\* year order
C15_Witness ==
    /\ Shaped /\ HasFeatures
    /\ Len(Features) = 2
    /\ Counts(Features[1], input.prefName) /\ YearOf(Features[1]) = 2000
    /\ Counts(Features[2], input.prefName) /\ YearOf(Features[2]) = 1995
    /\ Len(LibData) = 2
    /\ LibData[1].year = 1995 /\ LibData[2].year = 2000

\* ----------------------------------------------------------------- C16
\* year or value does not read as an integer
Malformed(feature) ==
    \/ ~ReadsAsInteger(feature.properties.N03_007)
    \/ ~ReadsAsInteger(feature.properties.N03_004)

\* C16: malformed-record tolerance.  No error is raised, and the aggregation
\* of the records equals the aggregation of the records with the malformed
\* ones taken out.
C16_MalformedDropped ==
    Shaped =>
        /\ ~outputs[1].lib.threw
        /\ LibData =
              fetchPopulation(input.prefCode, input.prefName,
                  [features |-> SelectSeq(Features, LAMBDA f : ~Malformed(f))],
                  <<>>).value.data

\* a record of the target with year "abc" next to a sound record of the
\* target: one point, that of the sound record
C16_Witness ==
    /\ Shaped /\ HasFeatures
    /\ Len(Features) = 2
    /\ Features[1].properties.N03_001 = input.prefName
    /\ Features[1].properties.N03_007 = <<"a", "b", "c">>
    /\ Features[1].properties.N03_004 = <<"1", "0", "0">>
    /\ Counts(Features[2], input.prefName)
    /\ LibData = <<[year |-> YearOf(Features[2]), value |-> ValueOf(Features[2])]>>

\* ----------------------------------------------------------------- C17
\* C17: name filter.  Records whose name is not the target contribute
\* nothing, also when their fields parse; with no record that matches and
\* parses the output is the empty sequence, and no error.
C17_NameFilter ==
    Shaped =>
        /\ ~outputs[1].lib.threw
        /\ LibData =
              fetchPopulation(input.prefCode, input.prefName,
                  [features |-> SelectSeq(Features,
                       LAMBDA f : f.properties.N03_001 = input.prefName)],
                  <<>>).value.data
        /\ (\A i \in 1..Len(Features) : ~Counts(Features[i], input.prefName))
              => LibData = <<>>

\* only records of another name, with fields that parse: empty output
C17_Witness ==
    /\ Shaped /\ HasFeatures
    /\ Len(Features) = 2
    /\ \A i \in 1..2 :
          /\ Features[i].properties.N03_001 # input.prefName
          /\ ~Malformed(Features[i])
    /\ LibData = <<>>

\* ----------------------------------------------------------------- C18
\* C18: the color of a code >= 1 is palette[(code - 1) mod 10], a member of
\* the palette of ten, so codes that differ by ten get the same color.
C18_ColorCycles ==
    (input.kind = "color" /\ outputs # <<>>) =>
        /\ Len(Colors) = 10
        /\ outputs[1] = Colors[((input.prefCode - 1) % 10) + 1]
        /\ outputs[1] \in {Colors[i] : i \in 1..10}
        /\ input.prefCode > 10 =>
              outputs[1] = getPrefectureColor(input.prefCode - 10)

\* code 11 gets the color of code 1
C18_Witness ==
    /\ input.kind = "color" /\ input.prefCode = 11
    /\ outputs = <<"#E53935">>

\* ----------------------------------------------------------------- C20
\* C20: idempotent aggregation.  Two calls on the same records and target
\* return the same points in the same order: no call sees what an earlier
\* call left.
C20_IdempotentAggregation ==
    (input.kind = "population" /\ Len(outputs) >= 2) =>
        \A k \in 2..Len(outputs) : outputs[k].lib = outputs[1].lib

\* the aggregation ran twice and returned two points each time
C20_Witness ==
    /\ input.kind = "population" /\ Len(outputs) = 2
    /\ Len(outputs[1].lib.value.data) = 2
    /\ yearlyPopulationMap # <<>>

\* ----------------------------------------------------------------- C24
\* C24: the three copies of the aggregation (the route's, that of
\* lib/api.ts and that of the api.ts calling /api/yumemi) return the same
\* sequence of points for the same external body and target name.
C24_AggregatorsAgree ==
    Shaped =>
        \A k \in 1..Len(outputs) :
            /\ ~outputs[k].lib.threw /\ ~outputs[k].page.threw
            /\ outputs[k].lib.value.data = outputs[k].route.data
            /\ outputs[k].page.value.data = outputs[k].route.data

\* records of two years given in descending order, one of them of another
\* prefecture, came out of the three copies as two points
C24_Witness ==
    /\ Shaped /\ HasFeatures
    /\ Len(Features) = MaxFeatures
    /\ Counts(Features[1], input.prefName)
    /\ Counts(Features[2], input.prefName)
    /\ YearOf(Features[1]) > YearOf(Features[2])
    /\ Len(outputs[1].route.data) = 2
    /\ Len(outputs[1].page.value.data) = 2

\* ----------------------------------------------------------------- C25
\* the external API answered the forwarded request with a non-OK status
UpstreamFailed ==
    /\ Forwarded(input.apiPath, input.searchParams)
    /\ input.apiResponse.settled
    /\ ~Ok(input.apiResponse)

\* C25: when the external API answers a forwarded request with a non-OK
\* status the route answers 502 with an error and the details (the JSON
\* error body, or the raw text when the body is not JSON), and the route
\* answers 500 only when the external API did not answer with an error
\* status.
C25_UpstreamErrorIs502 ==
    (input.kind = "proxy" /\ outputs # <<>>) =>
        /\ UpstreamFailed =>
              /\ outputs[1].status = 502
              /\ "error" \in DOMAIN outputs[1].body
              /\ "details" \in DOMAIN outputs[1].body
              /\ IF input.apiResponse.body.kind = "json"
                 THEN outputs[1].body.details = input.apiResponse.body.json
                 ELSE "rawText" \in DOMAIN outputs[1].body.details
        /\ outputs[1].status = 500 => ~UpstreamFailed

\* ----------------------------------------------------------------- C19
\* C19: catalog error.  When the catalog load fails the catalog stays empty
\* and the error stays set, and no toggle is issued from then on; whether the
\* load succeeds or fails, loading is eventually cleared and stays cleared.
C19_CatalogError ==
    /\ [](error # "null" => (allPrefectures = <<>> /\ ~loading /\ nToggles = 0))
    /\ [][error # "null" =>
             (error' = error /\ allPrefectures' = <<>> /\ nToggles' = nToggles)]_vars
    /\ [](last.op \in {"loaded", "loadFailed"} => ~loading)
    /\ [][~loading => ~loading']_vars
    /\ <>(~loading)

\* the load failed
C19_Witness ==
    /\ last.op = "loadFailed"
    /\ error # "null" /\ allPrefectures = <<>> /\ ~loading

====
